---- MODULE Spec2Model ----
(***************************************************************************)
(* Model of src/migration-tools/aws_migration_factory.py:                  *)
(* AWSMigrationService (discovery, wave planning, MGN replication setup,   *)
(* wave execution, reporting) and lambda_handler, which routes API events  *)
(* to it.  The service keeps no state between calls;                       *)
(* the state of the model is the caller's server list, the call last made  *)
(* (request) and the value it returned (result).                           *)
(*                                                                         *)
(* Dates are day numbers (datetime.now() is an input t of the call, and    *)
(* timedelta(days=n) adds n); identifiers built from the wall clock        *)
(* (discovery_id, wave_plan_id, execution_id, report_id) and the *_at      *)
(* timestamps are left out of the results.  Money is in cents.             *)
(***************************************************************************)
EXTENDS Integers, Sequences, FiniteSets

VARIABLES servers, request, result

vars == <<servers, request, result>>

(* ------------------------------ bounds -------------------------------- *)

\* longest server list a caller passes in
MaxServers == 4
\* latest day number datetime.now() returns
MaxNow == 1

(* ------------------------- program constants -------------------------- *)

\* range(1, 11): ten servers are discovered
NumDiscovered == 10
\* timedelta(days=i * 7): one week between wave starts
InterWaveDays == 7
\* source_servers[:3]
ReplicationLimit == 3

(* ----------------------------- helpers -------------------------------- *)

Has(d, k) == k \in DOMAIN d

\* dict.get(k, default)
Get(d, k, default) == IF k \in DOMAIN d THEN d[k] ELSE default

Digits == <<"0", "1", "2", "3", "4", "5", "6", "7", "8", "9">>

Digit(d) == Digits[d + 1]

\* f'{i:03d}' for 0 <= i < 1000
Pad3(i) == Digit(i \div 100) \o Digit((i \div 10) % 10) \o Digit(i % 10)

\* f'{i:02d}' for 0 <= i < 100
Pad2(i) == Digit(i \div 10) \o Digit(i % 10)

\* f'{n}' for 0 <= n < 100
Str(n) == IF n < 10 THEN Digit(n) ELSE Digit(n \div 10) \o Digit(n % 10)

\* f'srv-{i:03d}'
SrvId(i) == "srv-" \o Pad3(i)

RECURSIVE SumSeq(_)
SumSeq(s) == IF s = <<>> THEN 0 ELSE Head(s) + SumSeq(Tail(s))

RECURSIVE MaxSeq(_)
\* max(...) of a non-empty sequence
MaxSeq(s) == IF Len(s) = 1 THEN s[1]
             ELSE LET m == MaxSeq(Tail(s)) IN IF s[1] >= m THEN s[1] ELSE m

\* an exception leaving a block, in place of the block's value
Raise(exc) == [exception |-> exc]

Raised(v) == "exception" \in DOMAIN v

\* s[:n]
Prefix(s, n) == SubSeq(s, 1, IF Len(s) < n THEN Len(s) ELSE n)

(* -------------------------- mock inventory ---------------------------- *)

app_sets == <<
    <<"Web Server", "Apache", "PHP">>,
    <<"Database", "SQL Server", "SSRS">>,
    <<"Application Server", "IIS", ".NET Framework">>,
    <<"File Server", "Windows File Services">>,
    <<"Domain Controller", "Active Directory">>,
    <<"Monitoring", "SCOM", "SQL Express">>,
    <<"Backup Server", "Veeam", "PowerShell">>,
    <<"ERP System", "SAP", "Oracle DB">>,
    <<"CRM Application", "Salesforce Connect", "IIS">>,
    <<"Analytics Platform", "Tableau Server", "PostgreSQL">> >>

_get_mock_applications(server_index) ==
    app_sets[((server_index - 1) % Len(app_sets)) + 1]

\* the chain dependency names the server itself
_get_mock_dependencies_self(server_index) ==
    IF server_index <= 2 THEN <<>>
    ELSE IF server_index <= 6 THEN <<SrvId(server_index)>>
    ELSE <<SrvId(((server_index - 1) % 5) + 1), SrvId(((server_index - 2) % 5) + 1)>>

_get_mock_dependencies(server_index) ==
    IF server_index <= 2 THEN <<>>
    ELSE IF server_index <= 6 THEN <<SrvId(server_index - 1)>>
    ELSE <<SrvId(((server_index - 1) % 5) + 1), SrvId(((server_index - 2) % 5) + 1)>>

\* the first threshold is exclusive
_assess_complexity_lt(server_index) ==
    IF server_index < 3 THEN "low"
    ELSE IF server_index <= 7 THEN "medium"
    ELSE "high"

_assess_complexity(server_index) ==
    IF server_index <= 3 THEN "low"
    ELSE IF server_index <= 7 THEN "medium"
    ELSE "high"

_recommend_instance_type(server_index) ==
    IF server_index <= 5 THEN "t3.large" ELSE "m5.xlarge"

\* round(total_cores * 0.05 * 730, 2), in cents
_calculate_migration_cost(srvs) ==
    SumSeq([i \in 1..Len(srvs) |-> srvs[i].cpu_cores]) * 3650

discovered_server(environment, i) ==
    [server_id |-> SrvId(i),
     hostname |-> environment \o "-app-" \o Pad2(i),
     ip_address |-> "10.0.0." \o Str(10 + i),
     os_type |-> IF i % 2 = 0 THEN "Windows" ELSE "Linux",
     cpu_cores |-> IF i <= 5 THEN 4 ELSE 8,
     memory_gb |-> IF i <= 5 THEN 16 ELSE 32,
     storage_gb |-> 100 + (i * 50),
     applications |-> _get_mock_applications(i),
     dependencies |-> _get_mock_dependencies(i),
     migration_complexity |-> _assess_complexity(i),
     recommended_instance_type |-> _recommend_instance_type(i)]

discover_source_servers(discovery_scope) ==
    LET environment == Get(discovery_scope, "environment", "production")
        discovered_servers ==
            [i \in 1..NumDiscovered |-> discovered_server(environment, i)]
        portfolio_summary ==
            [total_servers |-> Len(discovered_servers),
             windows_servers |->
                 Len(SelectSeq(discovered_servers, LAMBDA s : s.os_type = "Windows")),
             linux_servers |->
                 Len(SelectSeq(discovered_servers, LAMBDA s : s.os_type = "Linux")),
             total_cpu_cores |-> SumSeq([i \in 1..Len(discovered_servers) |-> discovered_servers[i].cpu_cores]),
             total_memory_gb |-> SumSeq([i \in 1..Len(discovered_servers) |-> discovered_servers[i].memory_gb]),
             total_storage_gb |-> SumSeq([i \in 1..Len(discovered_servers) |-> discovered_servers[i].storage_gb]),
             estimated_monthly_cost |-> _calculate_migration_cost(discovered_servers)]
    IN  [discovered_servers |-> discovered_servers,
         portfolio_summary |-> portfolio_summary,
         next_steps |-> <<"Review server dependencies and migration complexity",
                          "Plan migration waves based on dependencies",
                          "Set up AWS MGN replication for source servers">>]

(* ---------------------------- wave planner ---------------------------- *)

\* wave_strategy == 'dependency_based'
is_dependency_based(wave_strategy) == wave_strategy = "dependency_based"

\* the waves before the timeline loop
grouped_waves(srvs, wave_strategy) ==
    IF is_dependency_based(wave_strategy)
    THEN << [wave_id |-> "wave-001",
             wave_name |-> "Independent Systems",
             description |-> "Servers with minimal dependencies - lowest risk",
             servers |-> SelectSeq(srvs, LAMBDA s : s.migration_complexity = "low"),
             estimated_duration_days |-> 7,
             prerequisites |-> <<"MGN replication setup", "Target VPC configuration">>],
            [wave_id |-> "wave-002",
             wave_name |-> "Mid-tier Applications",
             description |-> "Applications with moderate dependencies",
             servers |-> SelectSeq(srvs, LAMBDA s : s.migration_complexity = "medium"),
             estimated_duration_days |-> 14,
             prerequisites |-> <<"Wave 1 completion", "Database migration",
                                 "Network connectivity">>],
            [wave_id |-> "wave-003",
             wave_name |-> "Core Business Systems",
             description |-> "Critical systems with complex dependencies",
             servers |-> SelectSeq(srvs, LAMBDA s : s.migration_complexity = "high"),
             estimated_duration_days |-> 21,
             prerequisites |-> <<"All previous waves", "Extended testing",
                                 "Rollback procedures">>] >>
    ELSE <<>>

\* every wave is given the same length as the week between wave starts
wave_end_week(wave_start, wave) == wave_start + InterWaveDays

\* wave_start + timedelta(days=wave['estimated_duration_days'])
wave_end(wave_start, wave) == wave_start + wave.estimated_duration_days

\* the timeline loop; i counts from 0 in the code and from 1 here
with_timeline(waves, start_date) ==
    [i \in 1..Len(waves) |->
        LET wave == waves[i]
            wave_start == start_date + ((i - 1) * InterWaveDays)
        IN  [wave_id |-> wave.wave_id,
             wave_name |-> wave.wave_name,
             description |-> wave.description,
             servers |-> wave.servers,
             estimated_duration_days |-> wave.estimated_duration_days,
             prerequisites |-> wave.prerequisites,
             planned_start_date |-> wave_start,
             planned_end_date |-> wave_end(wave_start, wave),
             server_count |-> Len(wave.servers)]]

\* max(wave['estimated_duration_days'] for wave in waves) + (len(waves) - 1) * 7
total_migration_duration_days(waves) ==
    MaxSeq([i \in 1..Len(waves) |-> waves[i].estimated_duration_days])
        + ((Len(waves) - 1) * InterWaveDays)

\* an inventory without servers counts as all high
risk_percentage_full(high_complexity_servers, total_servers) ==
    IF total_servers > 0 THEN <<high_complexity_servers * 100, total_servers>>
    ELSE <<100, 1>>

\* (high_complexity_servers / total_servers) * 100 if total_servers > 0 else 0,
\* as the fraction <<numerator, denominator>>
risk_percentage(high_complexity_servers, total_servers) ==
    IF total_servers > 0 THEN <<high_complexity_servers * 100, total_servers>>
    ELSE <<0, 1>>

\* risk_percentage < k
PctBelow(pct, k) == pct[1] < k * pct[2]

risk_level_of(pct) ==
    IF PctBelow(pct, 20) THEN "low"
    ELSE IF PctBelow(pct, 50) THEN "medium"
    ELSE "high"

\* round(risk_percentage, 1), in tenths of a percent (no ties below 16 servers)
RoundTenths(pct) == ((pct[1] * 20) + pct[2]) \div (2 * pct[2])

_assess_migration_risks(waves) ==
    LET total_servers == SumSeq([i \in 1..Len(waves) |-> waves[i].server_count])
        high_complexity_servers ==
            SumSeq([i \in 1..Len(waves) |->
                Len(SelectSeq(waves[i].servers,
                              LAMBDA s : s.migration_complexity = "high"))])
        pct == risk_percentage(high_complexity_servers, total_servers)
        risk_level == risk_level_of(pct)
    IN  [overall_risk_level |-> risk_level,
         high_complexity_percentage |-> RoundTenths(pct),
         recommended_testing_weeks |-> IF risk_level = "high" THEN 2 ELSE 1]

\* the try block: max() of no waves raises ValueError
create_migration_waves_try(srvs, wave_strategy, now) ==
    LET waves == with_timeline(grouped_waves(srvs, wave_strategy), now)
    IN  IF waves = <<>>
        THEN Raise("max() arg is an empty sequence")
        ELSE [strategy |-> wave_strategy,
              waves |-> waves,
              total_migration_duration_days |-> total_migration_duration_days(waves),
              risk_assessment |-> _assess_migration_risks(waves)]

\* the try block without its except clause
create_migration_waves_uncaught(srvs, wave_strategy, now) ==
    create_migration_waves_try(srvs, wave_strategy, now)

\* the except clause turns what the try block raises into the error result
create_migration_waves(srvs, wave_strategy, now) ==
    LET r == create_migration_waves_try(srvs, wave_strategy, now)
    IN  IF Raised(r)
        THEN [error |-> "Wave planning failed", details |-> r.exception]
        ELSE r

(* ------------------------- MGN replication ---------------------------- *)

\* the keys a replication job reads from a server
ReplicationKeys == {"server_id", "recommended_instance_type", "hostname"}

replication_job(server) ==
    [source_server_id |-> server.server_id,
     replication_settings |->
         [replication_server_instance_type |-> "t3.small",
          replication_servers_security_groups_ids |-> <<"sg-1234567890abcdef0">>,
          subnet_id |-> "subnet-1234567890abcdef0",
          use_dedicated_replication_server |-> FALSE,
          default_large_staging_disk_type |-> "gp3",
          ebs_encryption |-> "DEFAULT"],
     launch_template |->
         [instance_type |-> server.recommended_instance_type,
          security_groups |-> <<"sg-production-app">>,
          subnet_id |-> "subnet-production-apps",
          iam_instance_profile |-> "EC2-MGN-Role",
          tags |-> [Name |-> "Migrated-" \o server.hostname,
                    Environment |-> "Production",
                    MigrationWave |-> "Wave-001",
                    OriginalServer |-> server.server_id]],
     replication_status |-> "INITIATED",
     initial_sync_progress |-> 0]

\* the try block: a server without one of the keys raises KeyError
setup_mgn_replication_try(source_servers) ==
    LET batch == Prefix(source_servers, ReplicationLimit)
    IN  IF \E i \in 1..Len(batch) : ~(ReplicationKeys \subseteq DOMAIN batch[i])
        THEN Raise("KeyError")
        ELSE [replication_jobs |-> [i \in 1..Len(batch) |-> replication_job(batch[i])],
              estimated_initial_sync_hours |-> 24,
              monitoring_dashboard |->
                  "https://console.aws.amazon.com/mgn/home#/sourceServers",
              next_steps |-> <<"Monitor initial replication progress",
                               "Validate replication settings",
                               "Prepare launch templates for test instances">>]

setup_mgn_replication(source_servers) ==
    LET r == setup_mgn_replication_try(source_servers)
    IN  IF Raised(r)
        THEN [error |-> "MGN replication setup failed", details |-> r.exception]
        ELSE r

(* -------------------------- wave execution ---------------------------- *)

\* a wave_id whose __format__ raises inside the f-string of execution_id
Unformattable == "<unformattable>"

\* the two branches of the mode test are exchanged
final_phase_swapped(execution_mode) ==
    [phase |-> IF execution_mode = "cutover" THEN "test_completion" ELSE "cutover_execution",
     status |-> "pending",
     duration_minutes |-> IF execution_mode = "cutover" THEN 15 ELSE 60,
     actions |-> IF execution_mode = "cutover"
                 THEN <<"Test results documentation", "Instance cleanup",
                        "Lessons learned capture">>
                 ELSE <<"Final replication sync", "Source server shutdown",
                        "DNS cutover", "Monitoring activation">>]

final_phase(execution_mode) ==
    [phase |-> IF execution_mode = "cutover" THEN "cutover_execution" ELSE "test_completion",
     status |-> "pending",
     duration_minutes |-> IF execution_mode = "cutover" THEN 60 ELSE 15,
     actions |-> IF execution_mode = "cutover"
                 THEN <<"Final replication sync", "Source server shutdown",
                        "DNS cutover", "Monitoring activation">>
                 ELSE <<"Test results documentation", "Instance cleanup",
                        "Lessons learned capture">>]

\* pre-validation is still running when the run is returned
pre_validation_running == "in_progress"

\* 'status': 'completed' of pre_migration_validation
pre_validation_status == "completed"

phases_of(execution_mode) ==
    << [phase |-> "pre_migration_validation",
        status |-> pre_validation_status,
        duration_minutes |-> 15,
        validations |-> <<"Replication sync status verified",
                          "Target VPC connectivity confirmed",
                          "Security groups validated",
                          "IAM roles and policies checked">>],
       [phase |-> "launch_test_instances",
        status |-> IF execution_mode = "test" THEN "in_progress" ELSE "pending",
        duration_minutes |-> 30,
        actions |-> <<"Launch instances from MGN", "Apply launch templates",
                      "Configure monitoring", "Update DNS records (test)">>],
       [phase |-> "application_validation",
        status |-> "pending",
        duration_minutes |-> 45,
        tests |-> <<"Application functionality testing",
                    "Database connectivity verification",
                    "Performance baseline comparison",
                    "Security configuration validation">>],
       final_phase(execution_mode) >>

\* both modes get the quarter-hour estimate
rollback_plan_flat(execution_mode) ==
    IF execution_mode = "test"
    THEN [available |-> TRUE,
          procedure |-> "Terminate test instances, revert DNS changes",
          estimated_time_minutes |-> 15]
    ELSE [available |-> TRUE,
          procedure |-> "Restart source servers, revert DNS, investigate issues",
          estimated_time_minutes |-> 15]

rollback_plan_of(execution_mode) ==
    IF execution_mode = "test"
    THEN [available |-> TRUE,
          procedure |-> "Terminate test instances, revert DNS changes",
          estimated_time_minutes |-> 15]
    ELSE [available |-> TRUE,
          procedure |-> "Restart source servers, revert DNS, investigate issues",
          estimated_time_minutes |-> 60]

\* the try block; estimated_completion is kept as the hours added to
\* datetime.now()
execute_migration_wave_try(wave_id, execution_mode) ==
    IF wave_id = Unformattable
    THEN Raise("__format__ raised")
    ELSE [wave_id |-> wave_id,
          execution_mode |-> execution_mode,
          phases |-> phases_of(execution_mode),
          estimated_completion |-> IF execution_mode = "test" THEN 2 ELSE 4,
          rollback_plan |-> rollback_plan_of(execution_mode)]

execute_migration_wave(wave_id, execution_mode) ==
    LET r == execute_migration_wave_try(wave_id, execution_mode)
    IN  IF Raised(r)
        THEN [error |-> "Migration execution failed",
              details |-> r.exception,
              rollback_required |-> TRUE]
        ELSE r

(* ----------------------------- reporting ------------------------------ *)

\* len([s for s in migration_data.get('servers', [])
\*      if s.get('migration_complexity') == c])
readiness_count(migration_data, c) ==
    Len(SelectSeq(Get(migration_data, "servers", <<>>),
                  LAMBDA s : Get(s, "migration_complexity", "") = c))

generate_migration_report(migration_data) ==
    [portfolio_analysis |->
         [servers_discovered |-> Get(migration_data, "total_servers", 0),
          migration_readiness |->
              [ready |-> readiness_count(migration_data, "low"),
               needs_remediation |-> readiness_count(migration_data, "medium"),
               complex_migration |-> readiness_count(migration_data, "high")]],
     cost_analysis |->
         [current_estimated_monthly_cost |-> Get(migration_data, "current_cost", 0),
          target_aws_monthly_cost |-> Get(migration_data, "target_cost", 0),
          estimated_savings_percentage |-> 25,
          migration_investment_required |-> Get(migration_data, "migration_cost", 0),
          roi_months |-> 12],
     risk_assessment |->
         [overall_risk_level |-> "medium",
          key_risks |-> <<"Application dependencies require careful sequencing",
                          "Legacy systems may need modernization",
                          "Network connectivity during transition">>,
          mitigation_strategies |-> <<"Implement comprehensive testing in each wave",
                                      "Establish robust rollback procedures",
                                      "Use AWS MGN for minimal downtime migration">>],
     timeline_projection |->
         [total_migration_duration_weeks |-> 12,
          waves_planned |-> 3,
          parallel_execution_opportunities |-> TRUE]]

(* --------------------------- Lambda handler --------------------------- *)

\* A JSON text is kept as the value it encodes, wrapped: json.dumps wraps,
\* json.loads unwraps, and a text that is no JSON makes json.loads raise.
json_dumps(v) == [json |-> v]

json_loads(text) ==
    IF "json" \in DOMAIN text THEN text.json ELSE Raise("JSONDecodeError")

\* a request body that is no JSON
NotJson == [garbage |-> "{"]

headers ==
    [h \in {"Content-Type", "Access-Control-Allow-Origin",
            "Access-Control-Allow-Headers", "Access-Control-Allow-Methods"} |->
        IF h = "Content-Type" THEN "application/json"
        ELSE IF h = "Access-Control-Allow-Origin" THEN "*"
        ELSE IF h = "Access-Control-Allow-Headers"
        THEN "Content-Type,X-Amz-Date,Authorization,X-Api-Key"
        ELSE "GET,POST,PUT,DELETE,OPTIONS"]

Routes == {"/discover-servers", "/create-waves", "/setup-replication",
           "/execute-wave", "/generate-report"}

\* the call a route makes with the parsed body
dispatch(path, body, now) ==
    IF path = "/discover-servers"
    THEN discover_source_servers(Get(body, "discovery_scope", <<>>))
    ELSE IF path = "/create-waves"
    THEN create_migration_waves(Get(body, "servers", <<>>),
                                Get(body, "strategy", "dependency_based"), now)
    ELSE IF path = "/setup-replication"
    THEN setup_mgn_replication(Get(body, "servers", <<>>))
    ELSE IF path = "/execute-wave"
    THEN execute_migration_wave(Get(body, "wave_id", ""),
                                Get(body, "execution_mode", "test"))
    ELSE generate_migration_report(Get(body, "migration_data", <<>>))

\* the try block of the handler (the boto3 clients are taken to be
\* constructed; their failure would raise into the same except clause)
lambda_handler_try(event, now) ==
    LET http_method == Get(event, "httpMethod", "")
        path == Get(event, "path", "")
    IN  IF http_method = "POST" /\ path \in Routes
        THEN LET body == json_loads(Get(event, "body", json_dumps(<<>>)))
             IN  IF Raised(body) THEN body
                 ELSE [statusCode |-> 200,
                       headers |-> headers,
                       body |-> json_dumps(dispatch(path, body, now))]
        ELSE [statusCode |-> 200,
              headers |-> headers,
              body |-> json_dumps(
                  [message |-> "AWS Migration Factory Demo API",
                   available_endpoints |->
                       <<"/discover-servers", "/create-waves", "/setup-replication",
                         "/execute-wave", "/generate-report">>,
                   demo_purpose |->
                       "Showcasing AWS MGN and Migration Factory integration"])]

lambda_handler(event, now) ==
    LET r == lambda_handler_try(event, now)
    IN  IF Raised(r)
        THEN [statusCode |-> 500,
              headers |-> headers,
              body |-> json_dumps(
                  [error |-> "Migration service error",
                   message |-> "Please contact your AWS ProServe migration team"])]
        ELSE r

(* --------------------------- state machine ---------------------------- *)

\* migration_complexity strings a request body can carry; the planner and
\* the report know the first three
Complexities == {"low", "medium", "high", "critical"}

\* a server of a request body: position k of the list, complexity c
InputServer(k, c) == [server_id |-> SrvId(k), migration_complexity |-> c]

ServerLists ==
    UNION {{[k \in 1..n |-> InputServer(k, cs[k])] : cs \in [1..n -> Complexities]}
           : n \in 0..MaxServers}

DiscoveryScopes ==
    {[subnet_ranges |-> <<"10.0.0.0/24">>],
     [subnet_ranges |-> <<"10.0.0.0/24">>, environment |-> "staging"]}

Init ==
    /\ servers \in ServerLists
    /\ request = [op |-> "none"]
    /\ result = [none |-> TRUE]

Discover ==
    \E scope \in DiscoveryScopes :
        /\ request' = [op |-> "discover_source_servers", discovery_scope |-> scope]
        /\ result' = discover_source_servers(scope)
        /\ UNCHANGED servers

Strategies == {"dependency_based", "complexity_based"}

\* the caller plans its own list, or the inventory a discovery just returned
CreateWaves ==
    \E srvs \in {servers} \cup (IF Has(result, "discovered_servers")
                                THEN {result.discovered_servers} ELSE {}),
       wave_strategy \in Strategies, now \in 0..MaxNow :
        /\ request' = [op |-> "create_migration_waves", servers |-> srvs,
                       wave_strategy |-> wave_strategy, now |-> now]
        /\ result' = create_migration_waves(srvs, wave_strategy, now)
        /\ UNCHANGED servers

SetupReplication ==
    \E srvs \in {servers} \cup (IF Has(result, "discovered_servers")
                                THEN {result.discovered_servers} ELSE {}) :
        /\ request' = [op |-> "setup_mgn_replication", source_servers |-> srvs]
        /\ result' = setup_mgn_replication(srvs)
        /\ UNCHANGED servers

WaveIds == {"wave-001", "wave-003", Unformattable}

\* 'test' and 'cutover', and a string that is neither
ExecutionModes == {"test", "cutover", "rehearsal"}

ExecuteWave ==
    \E wave_id \in WaveIds, execution_mode \in ExecutionModes :
        /\ request' = [op |-> "execute_migration_wave", wave_id |-> wave_id,
                       execution_mode |-> execution_mode]
        /\ result' = execute_migration_wave(wave_id, execution_mode)
        /\ UNCHANGED servers

\* the report data a caller builds from its list: with every key, with the
\* servers alone, or with the count alone
MigrationData(srvs) ==
    {[total_servers |-> Len(srvs), servers |-> srvs, current_cost |-> 400000,
      target_cost |-> 300000, migration_cost |-> 1200000],
     [servers |-> srvs],
     [total_servers |-> Len(srvs)]}

GenerateReport ==
    \E migration_data \in MigrationData(servers) :
        /\ request' = [op |-> "generate_migration_report",
                       migration_data |-> migration_data]
        /\ result' = generate_migration_report(migration_data)
        /\ UNCHANGED servers

Post(path, body) == [httpMethod |-> "POST", path |-> path, body |-> json_dumps(body)]

\* the API events a caller builds around its list
Events(srvs) ==
    {Post("/discover-servers",
          [discovery_scope |-> [subnet_ranges |-> <<"10.0.0.0/24">>,
                                environment |-> "staging"]]),
     Post("/create-waves", [servers |-> srvs, strategy |-> "dependency_based"]),
     Post("/create-waves", [servers |-> srvs, strategy |-> "complexity_based"]),
     [httpMethod |-> "POST", path |-> "/create-waves"],
     [httpMethod |-> "POST", path |-> "/create-waves", body |-> NotJson],
     Post("/setup-replication", [servers |-> srvs]),
     Post("/generate-report",
          [migration_data |-> [total_servers |-> Len(srvs), servers |-> srvs]]),
     [httpMethod |-> "GET", path |-> "/"]}
    \cup {Post("/execute-wave", [wave_id |-> "wave-001", execution_mode |-> m])
             : m \in ExecutionModes}

\* the clock readings that show in the response to an event: only the wave
\* planner puts dates in its result
ClockReads(event) ==
    IF Get(event, "path", "") = "/create-waves" THEN 0..MaxNow ELSE {0}

HandleEvent ==
    \E event \in Events(servers) :
        \E now \in ClockReads(event) :
            /\ request' = [op |-> "lambda_handler", event |-> event]
            /\ result' = lambda_handler(event, now)
            /\ UNCHANGED servers

Next ==
    \/ HandleEvent
    \/ Discover
    \/ CreateWaves
    \/ SetupReplication
    \/ ExecuteWave
    \/ GenerateReport

Spec == Init /\ [][Next]_vars

(* ------------------------------ claims -------------------------------- *)

\* number of positions of seq holding x
Count(seq, x) == Cardinality({i \in 1..Len(seq) : seq[i] = x})

\* number of times x is listed across the waves
WaveOccurrences(waves, x) == SumSeq([i \in 1..Len(waves) |-> Count(waves[i].servers, x)])

Planned == request.op = "create_migration_waves" /\ Has(result, "waves")

Ran == request.op = "execute_migration_wave" /\ Has(result, "phases")

\* the risk bucket of h high-complexity servers among n, by the thresholds of 4.2
Bucket(h, n) ==
    IF h * 100 < 20 * n THEN "low"
    ELSE IF h * 100 < 50 * n THEN "medium"
    ELSE "high"

HighCount(srvs) ==
    Len(SelectSeq(srvs, LAMBDA s : Get(s, "migration_complexity", "") = "high"))

\* C1: the waves of a dependency_based plan partition the input: every input
\* server is listed in the waves exactly as often as in the input, whatever
\* its migration_complexity.
C1_WavesPartitionInput ==
    (Planned /\ request.wave_strategy = "dependency_based") =>
        \A i \in 1..Len(request.servers) :
            WaveOccurrences(result.waves, request.servers[i])
                = Count(request.servers, request.servers[i])

\* C2: a run lists exactly four phases, pre-validation, launch, application
\* validation and a fourth one by mode: cutover_execution with source shutdown,
\* DNS cutover and monitoring activation in cutover mode, test_completion with
\* result documentation and instance cleanup in test mode.
C2_FourPhasesInOrder ==
    Ran =>
        LET ph == result.phases
            acts == {ph[4].actions[k] : k \in 1..Len(ph[4].actions)}
        IN  /\ Len(ph) = 4
            /\ ph[1].phase = "pre_migration_validation"
            /\ ph[2].phase = "launch_test_instances"
            /\ ph[3].phase = "application_validation"
            /\ ph[4].phase \in {"cutover_execution", "test_completion"}
            /\ request.execution_mode = "cutover" =>
                   /\ ph[4].phase = "cutover_execution"
                   /\ {"Source server shutdown", "DNS cutover",
                       "Monitoring activation"} \subseteq acts
            /\ request.execution_mode = "test" =>
                   /\ ph[4].phase = "test_completion"
                   /\ {"Test results documentation", "Instance cleanup"} \subseteq acts

C2_Witness ==
    /\ Ran
    /\ request.execution_mode = "cutover"
    /\ result.phases[4].phase = "cutover_execution"

\* C3: an execution that fails returns a run with status FAILED that carries
\* rollback_required = true and a rollback procedure that restarts the source
\* servers.
C3_FailureIsFailedRun ==
    (request.op = "execute_migration_wave" /\ Has(result, "error")) =>
        /\ Has(result, "rollback_required") /\ result.rollback_required
        /\ Has(result, "status") /\ result.status = "FAILED"
        /\ Has(result, "rollback_plan")
        /\ result.rollback_plan.procedure
               = "Restart source servers, revert DNS, investigate issues"

C5_CutoverRollbackCostsMore ==
    Ran =>
        /\ Has(result, "rollback_plan")
        /\ result.rollback_plan.available
        /\ request.execution_mode = "cutover" =>
               result.rollback_plan.estimated_time_minutes >
                   execute_migration_wave(result.wave_id, "test")
                       .rollback_plan.estimated_time_minutes
        /\ request.execution_mode = "test" =>
               result.rollback_plan.estimated_time_minutes <
                   execute_migration_wave(result.wave_id, "cutover")
                       .rollback_plan.estimated_time_minutes

C5_Witness ==
    /\ Ran
    /\ request.execution_mode = "cutover"
    /\ result.rollback_plan.available
    /\ result.rollback_plan.estimated_time_minutes = 60

\* C6: the total duration of a plan is the longest wave duration plus 7 days
\* for each wave after the first, and that is the last wave's planned end
\* minus the plan's start.
C6_TotalDuration ==
    Planned =>
        LET waves == result.waves
            n == Len(waves)
        IN  /\ \A i \in 1..n :
                   result.total_migration_duration_days
                       >= waves[i].estimated_duration_days + ((n - 1) * 7)
            /\ \E i \in 1..n :
                   result.total_migration_duration_days
                       = waves[i].estimated_duration_days + ((n - 1) * 7)
            /\ result.total_migration_duration_days
                   = waves[n].planned_end_date - request.now

C6_Witness ==
    /\ Planned
    /\ request.now > 0
    /\ result.total_migration_duration_days = 35
    /\ result.waves[3].planned_end_date = request.now + 35

\* C7: the report's overall risk level follows the planner's thresholds over
\* the servers of its input: low below 20% high-complexity servers, medium
\* below 50%, high otherwise.
C7_ReportRiskFromServers ==
    (request.op = "generate_migration_report"
        /\ Has(request.migration_data, "servers")
        /\ request.migration_data.servers # <<>>) =>
        result.risk_assessment.overall_risk_level
            = Bucket(HighCount(request.migration_data.servers),
                     Len(request.migration_data.servers))

\* C8: in a discovered inventory every dependency names a server of the
\* inventory with a strictly smaller index, and never the server itself.
C8_DependenciesPointBack ==
    Has(result, "discovered_servers") =>
        LET ds == result.discovered_servers
        IN  \A i \in 1..Len(ds) :
                \A k \in 1..Len(ds[i].dependencies) :
                    /\ ds[i].dependencies[k] # ds[i].server_id
                    /\ \E j \in 1..(i - 1) : ds[j].server_id = ds[i].dependencies[k]

C8_Witness ==
    /\ Has(result, "discovered_servers")
    /\ Len(result.discovered_servers) = 10
    /\ result.discovered_servers[10].dependencies = <<"srv-005", "srv-004">>

\* the inventories discovery returns
DiscoveredInventories ==
    {discover_source_servers(scope).discovered_servers : scope \in DiscoveryScopes}

\* C9: planning a discovered inventory by dependencies gives three waves, low,
\* medium, high, in that order, with servers 1-3, 4-7 and 8-10, so of sizes 3,
\* 4 and 3, each with server_count the length of its list; complexity never
\* decreases with the index.
C9_DiscoveredInventoryWaves ==
    (Planned /\ request.wave_strategy = "dependency_based"
        /\ request.servers \in DiscoveredInventories) =>
        LET ds == request.servers
            waves == result.waves
            rank == [c \in {"low", "medium", "high"} |->
                        IF c = "low" THEN 1 ELSE IF c = "medium" THEN 2 ELSE 3]
        IN  /\ Len(ds) = 10
            /\ \A i \in 1..Len(ds) :
                   ds[i].migration_complexity
                       = IF i <= 3 THEN "low" ELSE IF i <= 7 THEN "medium" ELSE "high"
            /\ \A i, j \in 1..Len(ds) :
                   i < j => rank[ds[i].migration_complexity]
                                <= rank[ds[j].migration_complexity]
            /\ Len(waves) = 3
            /\ <<waves[1].wave_id, waves[2].wave_id, waves[3].wave_id>>
                   = <<"wave-001", "wave-002", "wave-003">>
            /\ waves[1].servers = SubSeq(ds, 1, 3)
            /\ waves[2].servers = SubSeq(ds, 4, 7)
            /\ waves[3].servers = SubSeq(ds, 8, 10)
            /\ \A w \in 1..3 : waves[w].server_count = Len(waves[w].servers)
            /\ <<waves[1].server_count, waves[2].server_count, waves[3].server_count>>
                   = <<3, 4, 3>>

C9_Witness ==
    /\ Planned
    /\ request.wave_strategy = "dependency_based"
    /\ request.servers \in DiscoveredInventories
    /\ Len(result.waves[2].servers) = 4

\* C10: the overall risk level of a plan is the bucket of the fraction of
\* high-complexity servers in the whole input list: low below 20%, medium from
\* 20% and below 50%, high from 50%.
C10_RiskOverWholeInput ==
    (Planned /\ request.servers # <<>>) =>
        result.risk_assessment.overall_risk_level
            = Bucket(HighCount(request.servers), Len(request.servers))

\* a run came back through the handler
HandledRun ==
    /\ request.op = "lambda_handler"
    /\ result.statusCode = 200
    /\ Has(result.body.json, "phases")

\* the run of the state, returned by the method or inside the handler's response
TheRun == IF Ran THEN result ELSE result.body.json

\* the key each method's normal result carries
NormalKey ==
    [discover_source_servers |-> "discovered_servers",
     create_migration_waves |-> "waves",
     setup_mgn_replication |-> "replication_jobs",
     execute_migration_wave |-> "phases",
     generate_migration_report |-> "portfolio_analysis"]

\* C11: no call raises: every method returns its normal result or an error
\* result with an 'error' field, planning with a strategy other than
\* dependency_based returns the "Wave planning failed" error result, and the
\* handler returns an envelope of statusCode, headers and body for every event,
\* with a result that did not raise in its body.
C11_NoFailureAbortsTheCaller ==
    /\ ~Raised(result)
    /\ request.op \in DOMAIN NormalKey =>
           /\ Has(result, "error") \/ Has(result, NormalKey[request.op])
           /\ ~(Has(result, "error") /\ Has(result, NormalKey[request.op]))
    /\ (request.op = "create_migration_waves"
            /\ request.wave_strategy # "dependency_based") =>
           Has(result, "error") /\ result.error = "Wave planning failed"
    /\ request.op = "lambda_handler" =>
           /\ DOMAIN result = {"statusCode", "headers", "body"}
           /\ result.statusCode \in {200, 500}
           /\ result.headers = headers
           /\ Has(result.body, "json")
           /\ ~Raised(result.body.json)
           /\ result.statusCode = 500 =>
                  result.body.json.error = "Migration service error"

C11_Witness ==
    /\ request.op = "lambda_handler"
    /\ request.event.path = "/create-waves"
    /\ result.statusCode = 200
    /\ Has(result.body.json, "error")
    /\ result.body.json.error = "Wave planning failed"

\* C12: in a returned run a phase is in progress or completed only if every
\* earlier phase is completed, and at most one phase is in progress.
C12_PhasesInSequence ==
    (Ran \/ HandledRun) =>
        LET ph == TheRun.phases
        IN  /\ \A i \in 1..Len(ph) :
                   ph[i].status \in {"pending", "in_progress", "completed", "failed"}
            /\ \A i \in 1..Len(ph) :
                   ph[i].status \in {"in_progress", "completed"} =>
                       \A j \in 1..(i - 1) : ph[j].status = "completed"
            /\ Cardinality({i \in 1..Len(ph) : ph[i].status = "in_progress"}) <= 1

C12_Witness ==
    /\ Ran
    /\ result.phases[1].status = "completed"
    /\ result.phases[2].status = "in_progress"

\* C13: for every execution_mode the handler forwards, the rollback plan of the
\* run is the 60-minute "Restart source servers" one exactly when its fourth
\* phase is cutover_execution, and the 15-minute "Terminate test instances" one
\* exactly when its fourth phase is test_completion.
C13_RollbackMatchesFinalPhase ==
    HandledRun =>
        LET run == TheRun
            rb == run.rollback_plan
            restart ==
                /\ rb.estimated_time_minutes = 60
                /\ rb.procedure = "Restart source servers, revert DNS, investigate issues"
            terminate ==
                /\ rb.estimated_time_minutes = 15
                /\ rb.procedure = "Terminate test instances, revert DNS changes"
        IN  /\ restart <=> run.phases[4].phase = "cutover_execution"
            /\ terminate <=> run.phases[4].phase = "test_completion"

====
